---- MODULE Spec2Model ----
(***************************************************************************)
(* A model of Question2/vae_train.py: the script that trains a VAE on      *)
(* binarized MNIST, saves it, and estimates log-likelihoods by importance  *)
(* sampling.                                                               *)
(*                                                                         *)
(* Two specifications share the module.                                    *)
(*   Spec    one run of the script (the __main__ block): get_data_loader,  *)
(*           main (train / test per epoch, save, test), generate and the   *)
(*           two estimate_log_likelihood calls, one action per statement   *)
(*           group of the source.                                          *)
(*   SpecIS  one mini-batch of the estimator: generate_K_samples and       *)
(*           importance_sampling computed on values (see the second half   *)
(*           of the module).                                               *)
(* Floating-point values are modelled exactly: a quotient is the pair      *)
(* [num, den], and a loss or a log-likelihood that comes out of the        *)
(* network (VAE.py is not part of the sources) is an integer drawn from    *)
(* the data seed.                                                          *)
(***************************************************************************)
EXTENDS Integers, Sequences, FiniteSets

\* ------------------------------------------------------------------ bounds
\* main's parameter n_epochs ranges over 1..MaxEpochs (the script passes 20).
MaxEpochs == 2
\* A split file holds at most MaxFull full mini-batches plus a remainder.
MaxFull == 1

\* A mini-batch given to the estimator holds 1..MaxM images.
MaxM == 2
\* Images are Side x Side pixels (28 x 28 in the data files).
Side == 2
\* The latent space has L dimensions (Z is of size (M, K, L)).
L == 2
\* get_data_loader("binarized_mnist", 64)
batch_size == 64

\* Sizes of the last, smaller mini-batch that the split files are drawn with.
Remainders == {0, 1, 2}
\* The content of the data files, as far as the network's outputs depend on it.
Seeds == {0, 1}

Splits == <<"train", "valid", "test">>
DataSizes == {batch_size * f + r : f \in 0..MaxFull, r \in Remainders} \ {0}

\* ------------------------------------------------------------------ state
VARIABLES
  pc,            \* position in the script
  files,         \* number of lines of binarized_mnist_<split>.amat, per split
  seed,          \* content of the data files
  fwd1ok,        \* whether VAE.forward accepts a mini-batch of one image
  n_epochs,      \* main's parameter
  splitdata,     \* get_data_loader: the loaders built so far
  model,         \* main's model: [params, mode], "none" before main
  optSteps,      \* optimizer state: number of steps Adam has taken
  grads,         \* .grad of the parameters: the mini-batches accumulated in it
  epoch,         \* main's loop variable
  batch_idx,     \* loop variable of train / test / estimate_log_likelihood
  split,         \* test's and estimate_log_likelihood's split argument
  train_loss,    \* train's accumulator
  test_loss,     \* test's accumulator
  train_losses,  \* main's list
  valid_losses,  \* main's list
  elbo_loss,     \* train's / test's local: the loss of the current mini-batch
  main_train_loss, \* main's local train_loss
  last_test,     \* value returned by the last call of test
  ckpt,          \* best_model.pth: <<the saved parameters>>, <<>> while absent
  lmodel,        \* the model built by generate / estimate_log_likelihood
  estimate,      \* log_likelihood_estimate
  reports,       \* what estimate_log_likelihood printed for each split
  \* history variables (not in the source; they record what happened)
  writes,        \* number of times best_model.pth was written
  epochParams,   \* parameters at the end of each epoch's training
  seenBatches,   \* mini-batches the current loop has consumed: <<first, last>>
  batchLosses,   \* ELBO losses of the mini-batches of the current test call
  stepsInCall,   \* optimizer steps of the current train call
  stepGrads,     \* content of .grad at the last optimizer step
  trainDone,     \* completed calls of train
  validDone,     \* completed calls of test on the validation loader
  generated,     \* generate has drawn its images
  \* state of SpecIS
  ipc,           \* position in the mini-batch
  theta,         \* the parameters loaded from best_model.pth
  xs,            \* mini_batch_x: M images
  Kz,            \* the K that generate_K_samples is called with
  mu, logvar,    \* what model(mini_batch_x) returned
  eps,           \* the noise torch.randn drew
  Z,             \* the importance samples
  log_px         \* what importance_sampling returned

scriptVars == <<pc, files, seed, fwd1ok, n_epochs, splitdata, model, optSteps,
                grads, epoch, batch_idx, split, train_loss, test_loss,
                train_losses, valid_losses, elbo_loss, main_train_loss,
                last_test, ckpt, lmodel, estimate, reports, writes, epochParams, seenBatches, batchLosses,
                stepsInCall, stepGrads, trainDone, validDone, generated>>
isVars == <<ipc, theta, xs, Kz, mu, logvar, eps, Z, log_px>>
vars == <<scriptVars, isVars>>

\* ------------------------------------------------------------ data loaders
Min(a, b) == IF a <= b THEN a ELSE b

\* len(loader.dataset)
DatasetLen(loader) == loader.n

\* len(loader): DataLoader keeps the last, smaller mini-batch (drop_last=False)
NumBatches(loader) == (loader.n + loader.batch_size - 1) \div loader.batch_size

\* The examples of mini-batch b (0-based) of a loader that does not shuffle,
\* as <<first, last>> (1-based); for the shuffled training loader only the
\* size of the range is meaningful.
BatchRange(loader, b) ==
  <<b * loader.batch_size + 1, Min((b + 1) * loader.batch_size, loader.n)>>

\* len(inputs)
BatchLen(loader, b) == BatchRange(loader, b)[2] - BatchRange(loader, b)[1] + 1

\* data_utils.DataLoader(x, batch_size=batch_size, shuffle=splitname == "train")
DataLoader(n, bs, splitname) ==
  [n |-> n, batch_size |-> bs, shuffle |-> (splitname = "train")]

train_loader == splitdata[1]
valid_loader == splitdata[2]
test_loader == splitdata[3]

\* ---------------------------------------------------- the network (VAE.py)
\* model.ELBO(recon_output, inputs, mu, logvar).item(): the loss of one
\* mini-batch, a function of the parameters and of the data.
ELBO(sd, params, b) == 1 + ((sd + params + b) % 3)

\* model(inputs): VAE.forward fails on a mini-batch of one image or not,
\* as VAE.py decides.
ForwardFails(loader, b) == BatchLen(loader, b) = 1 /\ ~fwd1ok

\* nn.Module is built in training mode.
VAE == [params |-> 0, mode |-> "train"]

\* ------------------------------------------------------------------- Init
InitIS0 ==
  /\ ipc = "off"
  /\ theta = 0
  /\ xs = <<>>
  /\ Kz = 0
  /\ mu = <<>>
  /\ logvar = <<>>
  /\ eps = <<>>
  /\ Z = <<>>
  /\ log_px = [err |-> "none", val |-> <<>>]

Init ==
  /\ pc = "load"
  /\ files \in [{"train", "valid", "test"} -> DataSizes]
  /\ seed \in Seeds
  /\ fwd1ok \in BOOLEAN
  /\ n_epochs \in 1..MaxEpochs
  /\ splitdata = <<>>
  /\ model = "none"
  /\ optSteps = 0
  /\ grads = {}
  /\ epoch = 0
  /\ batch_idx = 0
  /\ split = "none"
  /\ train_loss = 0
  /\ test_loss = 0
  /\ train_losses = <<>>
  /\ valid_losses = <<>>
  /\ elbo_loss = 0
  /\ main_train_loss = "none"
  /\ last_test = "none"
  /\ ckpt = <<>>
  /\ lmodel = "none"
  /\ estimate = 0
  /\ reports = <<>>
  /\ writes = 0
  /\ epochParams = <<>>
  /\ seenBatches = <<>>
  /\ batchLosses = <<>>
  /\ stepsInCall = 0
  /\ stepGrads = {}
  /\ trainDone = 0
  /\ validDone = 0
  /\ generated = FALSE
  /\ InitIS0

\* ------------------------------------------------------------ tensor shapes
\* torch's squeeze(): every dimension of size 1 is dropped.
Squeeze(shape) == SelectSeq(shape, LAMBDA d : d # 1)

\* t.sum(dim) raises IndexError unless dim is a dimension of t.
DimOK(shape, dim) == dim < Len(shape)

\* The number of importance samples: K of importance_sampling and K of
\* estimate_log_likelihood.
K_is == 200
K_est == 200

\* importance_sampling on mini_batch_x of shape xshape and Z of shape zshape:
\* the exception it raises, or "ok".
\*   line 132  Z[:, k, :] for k in range(K_is)  needs K_is <= zshape[2]
\*   line 138  log_prob.squeeze().sum(2).sum(1) needs 3 dimensions left
\*   line 146  (M, K_is) - (M, zshape[2])       needs equal sizes, or one of them 1
ShapeError(xshape, zshape) ==
  IF ~DimOK(Squeeze(xshape), 2) THEN "IndexError: sum(2)"
  ELSE IF zshape[2] < K_is THEN "IndexError: Z[:, k, :]"
  ELSE IF zshape[2] # K_is /\ zshape[2] # 1 /\ K_is # 1
       THEN "RuntimeError: size mismatch"
  ELSE "ok"

\* log_px[i] of example i of the split, as the loaded model estimates it
\* (its value is computed from samples in SpecIS).
LogPx(sd, params, i) == 0 - (1 + ((sd + params + i) % 3))

RECURSIVE SumLogPx(_, _, _, _)
\* log_px.sum() over the examples lo..hi of a mini-batch
SumLogPx(sd, params, lo, hi) ==
  IF lo > hi THEN 0
  ELSE IF lo = hi THEN LogPx(sd, params, lo)
  ELSE LET mid == (lo + hi) \div 2
       IN SumLogPx(sd, params, lo, mid) + SumLogPx(sd, params, mid + 1, hi)

\* the sum divided by the capacity of the mini-batches, not by the examples
MeanEstimateOverBatches(total, loader) ==
  [num |-> total, den |-> NumBatches(loader) * loader.batch_size]

\* log_likelihood_estimate / len(data_loader.dataset)
MeanEstimate(total, loader) == [num |-> total, den |-> DatasetLen(loader)]

\* the sum divided by the number of mini-batches, len(test_loader)
MeanLossPerBatch(total, loader) == [num |-> total, den |-> NumBatches(loader)]

\* test_loss / len(test_loader.dataset), train_loss / len(train_loader.dataset)
MeanLoss(total, loader) == [num |-> total, den |-> DatasetLen(loader)]

\* the loop of main left one epoch early
MoreEpochsEarly(e, n) == e + 1 < n - 1

\* for epoch in range(n_epochs): another epoch follows epoch e
MoreEpochs(e, n) == e + 1 < n

\* zero_grad left out: .grad keeps what the earlier mini-batches put in it
zero_grad_kept(g) == g

\* optimizer.zero_grad()
zero_grad(g) == {}

\* model.train() left out
train_mode_kept(m) == m

\* model.train()
train_mode(m) == [m EXCEPT !.mode = "train"]

\* model.eval()
eval_mode(m) == [m EXCEPT !.mode = "eval"]

\* ---------------------------------------------------------------- actions
inputVars == <<files, seed, fwd1ok, n_epochs>>
trainHist == <<stepsInCall, stepGrads, trainDone, epochParams>>
estVars == <<lmodel, estimate, reports, generated>>

\* get_data_loader, one split per step (lines 21-33)
LoadSplit ==
  /\ pc = "load"
  /\ LET splitname == Splits[Len(splitdata) + 1]
     IN splitdata' = Append(splitdata,
                            DataLoader(files[splitname], batch_size, splitname))
  /\ pc' = IF Len(splitdata) = 2 THEN "main" ELSE "load"
  /\ UNCHANGED <<inputVars, model, optSteps, grads, epoch, batch_idx, split,
                 train_loss, test_loss, train_losses, valid_losses, elbo_loss,
                 main_train_loss, last_test, ckpt, estVars, writes, seenBatches,
                 batchLosses, trainHist, validDone, isVars>>

\* main, lines 181-188: the model, the optimizer, the lists, the first epoch
MainInit ==
  /\ pc = "main"
  /\ model' = VAE
  /\ optSteps' = 0
  /\ train_losses' = <<>>
  /\ valid_losses' = <<>>
  /\ epoch' = 0
  /\ pc' = "train_enter"
  /\ UNCHANGED <<inputVars, splitdata, grads, batch_idx, split, train_loss,
                 test_loss, elbo_loss, main_train_loss, last_test, ckpt,
                 estVars, writes, seenBatches, batchLosses, trainHist,
                 validDone, isVars>>

\* train, lines 37-39
TrainEnter ==
  /\ pc = "train_enter"
  /\ model' = train_mode(model)
  /\ train_loss' = 0
  /\ batch_idx' = 0
  /\ stepsInCall' = 0
  /\ seenBatches' = <<>>
  /\ pc' = IF NumBatches(train_loader) > 0 THEN "t_zero" ELSE "t_ret"
  /\ UNCHANGED <<inputVars, splitdata, optSteps, grads, epoch, split, test_loss,
                 train_losses, valid_losses, elbo_loss, main_train_loss,
                 last_test, ckpt, estVars, writes, batchLosses, stepGrads,
                 trainDone, epochParams, validDone, isVars>>

\* train, lines 40-41: optimizer.zero_grad()
ZeroGrad ==
  /\ pc = "t_zero"
  /\ grads' = zero_grad(grads)
  /\ pc' = "t_fwd"
  /\ UNCHANGED <<inputVars, splitdata, model, optSteps, epoch, batch_idx, split,
                 train_loss, test_loss, train_losses, valid_losses, elbo_loss,
                 main_train_loss, last_test, ckpt, estVars, writes, seenBatches,
                 batchLosses, trainHist, validDone, isVars>>

\* train, line 42: recon_output, mu, logvar = model(inputs)
TrainForward ==
  /\ pc = "t_fwd"
  /\ pc' = IF ForwardFails(train_loader, batch_idx) THEN "crashed" ELSE "t_loss"
  /\ UNCHANGED <<inputVars, splitdata, model, optSteps, grads, epoch, batch_idx,
                 split, train_loss, test_loss, train_losses, valid_losses,
                 elbo_loss, main_train_loss, last_test, ckpt, estVars, writes,
                 seenBatches, batchLosses, trainHist, validDone, isVars>>

\* train, line 43: elbo_loss = model.ELBO(...)
TrainLoss ==
  /\ pc = "t_loss"
  /\ elbo_loss' = ELBO(seed, model.params, batch_idx)
  /\ pc' = "t_bwd"
  /\ UNCHANGED <<inputVars, splitdata, model, optSteps, grads, epoch, batch_idx,
                 split, train_loss, test_loss, train_losses, valid_losses,
                 main_train_loss, last_test, ckpt, estVars, writes, seenBatches,
                 batchLosses, trainHist, validDone, isVars>>

\* train, lines 44-45: elbo_loss.backward() adds this mini-batch's gradient
\* to .grad; train_loss += elbo_loss.item()
Backward ==
  /\ pc = "t_bwd"
  /\ grads' = grads \cup {<<epoch, batch_idx>>}
  /\ train_loss' = train_loss + elbo_loss
  /\ pc' = "t_step"
  /\ UNCHANGED <<inputVars, splitdata, model, optSteps, epoch, batch_idx, split,
                 test_loss, train_losses, valid_losses, elbo_loss,
                 main_train_loss, last_test, ckpt, estVars, writes, seenBatches,
                 batchLosses, trainHist, validDone, isVars>>

\* train, lines 46-52: optimizer.step(), then the next mini-batch
OptStep ==
  /\ pc = "t_step"
  /\ model' = [model EXCEPT !.params = @ + 1]
  /\ optSteps' = optSteps + 1
  /\ stepGrads' = grads
  /\ stepsInCall' = stepsInCall + 1
  /\ seenBatches' = Append(seenBatches, BatchRange(train_loader, batch_idx))
  /\ batch_idx' = batch_idx + 1
  /\ pc' = IF batch_idx + 1 < NumBatches(train_loader) THEN "t_zero" ELSE "t_ret"
  /\ UNCHANGED <<inputVars, splitdata, grads, epoch, split, train_loss,
                 test_loss, train_losses, valid_losses, elbo_loss,
                 main_train_loss, last_test, ckpt, estVars, writes, batchLosses,
                 trainDone, epochParams, validDone, isVars>>

\* train, lines 54-56, and main, lines 189-190: train returns, test is called
\* on the validation loader
TrainReturn ==
  /\ pc = "t_ret"
  /\ main_train_loss' = MeanLoss(train_loss, train_loader)
  /\ trainDone' = trainDone + 1
  /\ epochParams' = Append(epochParams, model.params)
  /\ split' = "Valid"
  /\ pc' = "v_enter"
  /\ UNCHANGED <<inputVars, splitdata, model, optSteps, grads, epoch, batch_idx,
                 train_loss, test_loss, train_losses, valid_losses, elbo_loss,
                 last_test, ckpt, estVars, writes, seenBatches, batchLosses,
                 stepsInCall, stepGrads, validDone, isVars>>

\* the loader test was called with
TestLoader == IF split = "Valid" THEN valid_loader ELSE test_loader

\* test, lines 61-64
TestEnter ==
  /\ pc = "v_enter"
  /\ model' = eval_mode(model)
  /\ test_loss' = 0
  /\ batch_idx' = 0
  /\ batchLosses' = <<>>
  /\ seenBatches' = <<>>
  /\ pc' = IF NumBatches(TestLoader) > 0 THEN "v_fwd" ELSE "v_ret"
  /\ UNCHANGED <<inputVars, splitdata, optSteps, grads, epoch, split,
                 train_loss, train_losses, valid_losses, elbo_loss,
                 main_train_loss, last_test, ckpt, estVars, writes, trainHist,
                 validDone, isVars>>

\* test, lines 65-66: the forward pass, under torch.no_grad()
TestForward ==
  /\ pc = "v_fwd"
  /\ pc' = IF ForwardFails(TestLoader, batch_idx) THEN "crashed" ELSE "v_loss"
  /\ UNCHANGED <<inputVars, splitdata, model, optSteps, grads, epoch, batch_idx,
                 split, train_loss, test_loss, train_losses, valid_losses,
                 elbo_loss, main_train_loss, last_test, ckpt, estVars, writes,
                 seenBatches, batchLosses, trainHist, validDone, isVars>>

\* test, lines 67-74: the loss of the mini-batch is added to test_loss
TestLoss ==
  /\ pc = "v_loss"
  /\ LET l == ELBO(seed, model.params, batch_idx)
     IN /\ elbo_loss' = l
        /\ test_loss' = test_loss + l
        /\ batchLosses' = Append(batchLosses, l)
  /\ seenBatches' = Append(seenBatches, BatchRange(TestLoader, batch_idx))
  /\ batch_idx' = batch_idx + 1
  /\ pc' = IF batch_idx + 1 < NumBatches(TestLoader) THEN "v_fwd" ELSE "v_ret"
  /\ UNCHANGED <<inputVars, splitdata, model, optSteps, grads, epoch, split,
                 train_loss, train_losses, valid_losses, main_train_loss,
                 last_test, ckpt, estVars, writes, trainHist, validDone, isVars>>

\* test, lines 76-78, and its caller: main's loop (lines 190-192, then the
\* next epoch or the end of the loop) or main's last line (205)
TestReturn ==
  /\ pc = "v_ret"
  /\ last_test' = MeanLoss(test_loss, TestLoader)
  /\ IF split = "Valid"
     THEN /\ train_losses' = Append(train_losses, main_train_loss)
          /\ valid_losses' = Append(valid_losses, MeanLoss(test_loss, TestLoader))
          /\ validDone' = validDone + 1
          /\ IF MoreEpochs(epoch, n_epochs)
             THEN epoch' = epoch + 1 /\ pc' = "train_enter"
             ELSE epoch' = epoch /\ pc' = "save"
     ELSE /\ pc' = "g_load"
          /\ UNCHANGED <<train_losses, valid_losses, validDone, epoch>>
  /\ UNCHANGED <<inputVars, splitdata, model, optSteps, grads, batch_idx, split,
                 train_loss, test_loss, elbo_loss, main_train_loss, ckpt,
                 estVars, writes, seenBatches, batchLosses, trainHist, isVars>>

\* main, lines 194-195: torch.save(model.state_dict(), "best_model.pth")
Save ==
  /\ pc = "save"
  /\ ckpt' = <<model.params>>
  /\ writes' = writes + 1
  /\ pc' = "plot"
  /\ UNCHANGED <<inputVars, splitdata, model, optSteps, grads, epoch, batch_idx,
                 split, train_loss, test_loss, train_losses, valid_losses,
                 elbo_loss, main_train_loss, last_test, estVars, seenBatches,
                 batchLosses, trainHist, validDone, isVars>>

\* main, lines 196-205: the learning curves, then test on the test loader
Plot ==
  /\ pc = "plot"
  /\ split' = "Test"
  /\ pc' = "v_enter"
  /\ UNCHANGED <<inputVars, splitdata, model, optSteps, grads, epoch, batch_idx,
                 train_loss, test_loss, train_losses, valid_losses, elbo_loss,
                 main_train_loss, last_test, ckpt, estVars, writes, seenBatches,
                 batchLosses, trainHist, validDone, isVars>>

\* generate, lines 83-84: a new VAE, loaded from best_model.pth
GenLoad ==
  /\ pc = "g_load"
  /\ IF ckpt = <<>>
     THEN pc' = "crashed" /\ lmodel' = lmodel
     ELSE pc' = "g_eval" /\ lmodel' = [VAE EXCEPT !.params = ckpt[1]]
  /\ UNCHANGED <<inputVars, splitdata, model, optSteps, grads, epoch, batch_idx,
                 split, train_loss, test_loss, train_losses, valid_losses,
                 elbo_loss, main_train_loss, last_test, ckpt, estimate, reports,
                 generated, writes, seenBatches, batchLosses, trainHist,
                 validDone, isVars>>

\* generate, line 85: model.eval()
GenEval ==
  /\ pc = "g_eval"
  /\ lmodel' = eval_mode(lmodel)
  /\ pc' = "g_sample"
  /\ UNCHANGED <<inputVars, splitdata, model, optSteps, grads, epoch, batch_idx,
                 split, train_loss, test_loss, train_losses, valid_losses,
                 elbo_loss, main_train_loss, last_test, ckpt, estimate, reports,
                 generated, writes, seenBatches, batchLosses, trainHist,
                 validDone, isVars>>

\* generate, lines 86-101: decode ten latent samples and plot them; then the
\* script calls estimate_log_likelihood(valid_loader, device, split="valid")
GenSample ==
  /\ pc = "g_sample"
  /\ generated' = TRUE
  /\ split' = "valid"
  /\ pc' = "e_load"
  /\ UNCHANGED <<inputVars, splitdata, model, optSteps, grads, epoch, batch_idx,
                 train_loss, test_loss, train_losses, valid_losses, elbo_loss,
                 main_train_loss, last_test, ckpt, lmodel, estimate, reports,
                 writes, seenBatches, batchLosses, trainHist, validDone, isVars>>

\* the loader estimate_log_likelihood was called with
EstLoader == IF split = "valid" THEN valid_loader ELSE test_loader

\* estimate_log_likelihood, lines 154-158: a new VAE, loaded from best_model.pth
EstLoad ==
  /\ pc = "e_load"
  /\ IF ckpt = <<>>
     THEN pc' = "crashed" /\ lmodel' = lmodel
     ELSE pc' = "e_eval" /\ lmodel' = [VAE EXCEPT !.params = ckpt[1]]
  /\ UNCHANGED <<inputVars, splitdata, model, optSteps, grads, epoch, batch_idx,
                 split, train_loss, test_loss, train_losses, valid_losses,
                 elbo_loss, main_train_loss, last_test, ckpt, estimate, reports,
                 generated, writes, seenBatches, batchLosses, trainHist,
                 validDone, isVars>>

\* estimate_log_likelihood, lines 159-164
EstEval ==
  /\ pc = "e_eval"
  /\ lmodel' = eval_mode(lmodel)
  /\ estimate' = 0
  /\ batch_idx' = 0
  /\ seenBatches' = <<>>
  /\ pc' = IF NumBatches(EstLoader) > 0 THEN "e_fwd" ELSE "e_report"
  /\ UNCHANGED <<inputVars, splitdata, model, optSteps, grads, epoch, split,
                 train_loss, test_loss, train_losses, valid_losses, elbo_loss,
                 main_train_loss, last_test, ckpt, reports, generated, writes,
                 batchLosses, trainHist, validDone, isVars>>

\* estimate_log_likelihood, lines 165-166: recon_output, mu, logvar = model(x)
EstForward ==
  /\ pc = "e_fwd"
  /\ pc' = IF ForwardFails(EstLoader, batch_idx) THEN "crashed" ELSE "e_sample"
  /\ UNCHANGED <<inputVars, splitdata, model, optSteps, grads, epoch, batch_idx,
                 split, train_loss, test_loss, train_losses, valid_losses,
                 elbo_loss, main_train_loss, last_test, ckpt, estVars, writes,
                 seenBatches, batchLosses, trainHist, validDone, isVars>>

\* estimate_log_likelihood, line 170: Z = generate_K_samples(mu, logvar, K)
EstSample ==
  /\ pc = "e_sample"
  /\ pc' = "e_is"
  /\ UNCHANGED <<inputVars, splitdata, model, optSteps, grads, epoch, batch_idx,
                 split, train_loss, test_loss, train_losses, valid_losses,
                 elbo_loss, main_train_loss, last_test, ckpt, estVars, writes,
                 seenBatches, batchLosses, trainHist, validDone, isVars>>

\* estimate_log_likelihood, lines 172-174: log_px = importance_sampling(...),
\* log_likelihood_estimate += log_px.sum(), then the next mini-batch
EstIS ==
  /\ pc = "e_is"
  /\ LET M == BatchLen(EstLoader, batch_idx)
         r == BatchRange(EstLoader, batch_idx)
     IN IF ShapeError(<<M, 1, Side, Side>>, <<M, K_est, L>>) # "ok"
        THEN /\ pc' = "crashed"
             /\ UNCHANGED <<estimate, seenBatches, batch_idx>>
        ELSE /\ estimate' = estimate + SumLogPx(seed, lmodel.params, r[1], r[2])
             /\ seenBatches' = Append(seenBatches, r)
             /\ batch_idx' = batch_idx + 1
             /\ pc' = IF batch_idx + 1 < NumBatches(EstLoader)
                      THEN "e_fwd" ELSE "e_report"
  /\ UNCHANGED <<inputVars, splitdata, model, optSteps, grads, epoch, split,
                 train_loss, test_loss, train_losses, valid_losses, elbo_loss,
                 main_train_loss, last_test, ckpt, lmodel, reports, generated,
                 writes, batchLosses, trainHist, validDone, isVars>>

\* estimate_log_likelihood, line 176: the estimate of the split is printed;
\* then the script's next call (split="test"), or its end
EstReport ==
  /\ pc = "e_report"
  /\ reports' = Append(reports, [split |-> split,
                                 value |-> MeanEstimate(estimate, EstLoader)])
  /\ IF split = "valid"
     THEN split' = "test" /\ pc' = "e_load"
     ELSE split' = split /\ pc' = "done"
  /\ UNCHANGED <<inputVars, splitdata, model, optSteps, grads, epoch, batch_idx,
                 train_loss, test_loss, train_losses, valid_losses, elbo_loss,
                 main_train_loss, last_test, ckpt, lmodel, estimate, generated,
                 writes, seenBatches, batchLosses, trainHist, validDone, isVars>>

Next ==
  \/ LoadSplit \/ MainInit
  \/ TrainEnter \/ ZeroGrad \/ TrainForward \/ TrainLoss \/ Backward \/ OptStep
  \/ TrainReturn
  \/ TestEnter \/ TestForward \/ TestLoss \/ TestReturn
  \/ Save \/ Plot
  \/ GenLoad \/ GenEval \/ GenSample
  \/ EstLoad \/ EstEval \/ EstForward \/ EstSample \/ EstIS \/ EstReport

Spec == Init /\ [][Next]_vars

\* ------------------------------------------------- properties of the script
TrainPcs == {"t_zero", "t_fwd", "t_loss", "t_bwd", "t_step"}
TestPcs == {"v_enter", "v_fwd", "v_loss", "v_ret"}
LoadedPcs == {"g_eval", "g_sample", "e_eval", "e_fwd", "e_sample", "e_is",
              "e_report", "done"}
AfterSavePcs == {"plot", "g_load", "e_load"} \cup LoadedPcs

RECURSIVE SumSeq(_)
SumSeq(q) == IF q = <<>> THEN 0 ELSE Head(q) + SumSeq(Tail(q))

\* C1: the script runs load data -> train -> save -> evaluate. All three
\* loaders exist before main starts; in every epoch train() has returned before
\* test() on the validation loader runs, and test() of the epoch before it has
\* returned before train() runs; best_model.pth is written at most once, only
\* after all n_epochs epochs, and exactly once from the save on; test on the
\* test loader runs after the save; generate and estimate_log_likelihood load
\* the file only after this run wrote it, and hold what it wrote.
C1_Order ==
  /\ pc # "load" => Len(splitdata) = 3
  /\ pc \in TrainPcs \cup {"train_enter", "t_ret"} =>
       trainDone = epoch /\ validDone = epoch
  /\ (pc \in TestPcs /\ split = "Valid") =>
       trainDone = epoch + 1 /\ validDone = epoch
  /\ writes <= 1
  /\ writes = Len(ckpt)
  /\ writes = 1 => trainDone = n_epochs /\ validDone = n_epochs
  /\ (pc \in TestPcs /\ split = "Test") => writes = 1
  /\ pc \in AfterSavePcs => writes = 1
  /\ pc \in LoadedPcs => lmodel.params = ckpt[1]

\* C1's case: the script has finished after more than one epoch.
C1_Witness == pc = "done" /\ n_epochs > 1 /\ writes = 1 /\ Len(reports) = 2

\* C4: what estimate_log_likelihood prints for a split is the sum of log_px
\* over every example of the split, each counted once (the mini-batches it
\* consumed tile the data set, the last, smaller one included), divided by the
\* number of examples of the split.
C4_MeanOverDataset ==
  /\ pc = "e_report" =>
       /\ \A i \in 1..DatasetLen(EstLoader) :
            Cardinality({j \in 1..Len(seenBatches) :
              seenBatches[j][1] <= i /\ i <= seenBatches[j][2]}) = 1
       /\ estimate = SumLogPx(seed, ckpt[1], 1, DatasetLen(EstLoader))
  /\ \A j \in 1..Len(reports) :
       LET loader == IF reports[j].split = "valid" THEN valid_loader
                     ELSE test_loader
       IN reports[j].value =
            [num |-> SumLogPx(seed, ckpt[1], 1, DatasetLen(loader)),
             den |-> DatasetLen(loader)]

\* C4's case: an estimate was printed for a split whose last mini-batch is
\* smaller than the others.
C4_Witness ==
  /\ Len(reports) >= 1
  /\ reports[1].split = "valid"
  /\ DatasetLen(valid_loader) = batch_size + 2

\* C6: best_model.pth holds the parameters of the epoch whose validation loss
\* is the lowest of all epochs.
C6_BestModelSaved ==
  Len(ckpt) = 1 =>
    \E e \in 1..Len(valid_losses) :
      /\ epochParams[e] = ckpt[1]
      /\ \A e2 \in 1..Len(valid_losses) :
           valid_losses[e].num <= valid_losses[e2].num

\* C7: in train every mini-batch goes zero_grad -> forward -> loss -> backward
\* -> step: .grad is empty when the backward pass starts, holds the gradient of
\* the current mini-batch alone when the optimizer steps, the optimizer has
\* stepped once per mini-batch consumed, and when train returns the number of
\* steps is the number of mini-batches of the training loader.
C7_StepPerBatch ==
  /\ pc \in {"t_fwd", "t_loss", "t_bwd"} => grads = {}
  /\ pc = "t_step" => grads = {<<epoch, batch_idx>>}
  /\ optSteps > 0 => Cardinality(stepGrads) = 1
  /\ pc \in TrainPcs => stepsInCall = batch_idx
  /\ pc = "t_ret" => stepsInCall = NumBatches(train_loader)

\* C7's case: train returns after a second mini-batch.
C7_Witness ==
  /\ pc = "t_ret"
  /\ stepsInCall = 2
  /\ stepGrads = {<<epoch, 1>>}

\* C8: every step of training runs with the model in training mode and every
\* evaluation (test, generate, estimate_log_likelihood) with the model it uses
\* in evaluation mode, also in the epochs that follow a test().
C8_Modes ==
  /\ pc \in TrainPcs => model.mode = "train"
  /\ pc \in {"v_fwd", "v_loss"} => model.mode = "eval"
  /\ pc \in {"g_sample", "e_fwd", "e_sample", "e_is"} => lmodel.mode = "eval"

\* C8's case: an optimizer step of the second epoch, after test() of the first.
C8_Witness == pc = "t_step" /\ epoch = 1 /\ validDone = 1

\* a step of test() keeps the parameters, the optimizer state and .grad
TestKeeps ==
  pc \in TestPcs =>
    (model'.params = model.params /\ optSteps' = optSteps /\ grads' = grads)

\* C9: test() changes neither the parameters nor the optimizer state nor
\* .grad; it returns the sum of the losses of all mini-batches of its loader
\* divided by the number of examples; and best_model.pth holds the parameters
\* after the last optimizer step of the last epoch.
C9_TestFrame ==
  /\ [][TestKeeps]_vars
  /\ [](pc = "v_ret" =>
          /\ Len(batchLosses) = NumBatches(TestLoader)
          /\ test_loss = SumSeq(batchLosses))
  /\ [](pc \in {"save", "g_load"} =>
          last_test = [num |-> SumSeq(batchLosses),
                       den |-> DatasetLen(IF pc = "save" THEN valid_loader
                                          ELSE test_loader)])
  /\ [](Len(ckpt) = 1 =>
          /\ ckpt[1] = epochParams[n_epochs]
          /\ ckpt[1] = optSteps
          /\ ckpt[1] = n_epochs * NumBatches(train_loader))

\* C9's case: test() on the test loader has returned over two mini-batches.
C9_Witness ==
  /\ pc = "g_load"
  /\ Len(batchLosses) = 2
  /\ Len(ckpt) = 1

\* ===================================================== the estimator on values
\* Exact arithmetic. A rational is <<n, d>> in lowest terms with d > 0.
Abs(a) == IF a < 0 THEN 0 - a ELSE a

RECURSIVE GCD(_, _)
GCD(a, b) == IF b = 0 THEN a ELSE GCD(b, a % b)

Rat(n, d) ==
  LET g == GCD(Abs(n), Abs(d))
      sg == IF d < 0 THEN 0 - 1 ELSE 1
  IN <<(sg * n) \div g, (sg * d) \div g>>

RInt(n) == <<n, 1>>
RAdd(a, b) == Rat(a[1] * b[2] + b[1] * a[2], a[2] * b[2])
RSub(a, b) == Rat(a[1] * b[2] - b[1] * a[2], a[2] * b[2])
RMul(a, b) == Rat(a[1] * b[1], a[2] * b[2])
RDiv(a, b) == Rat(a[1] * b[2], a[2] * b[1])

RECURSIVE Pow2(_)
Pow2(n) == IF n <= 0 THEN 1 ELSE 2 * Pow2(n - 1)

\* The square root (of a perfect square; its integer part otherwise).
Sqrt(n) == CHOOSE r \in 0..n : r * r <= n /\ (r + 1) * (r + 1) > n

RECURSIVE SumOver(_, _, _)
\* f[lo] + ... + f[hi] over rationals
SumOver(f, lo, hi) ==
  IF lo > hi THEN RInt(0)
  ELSE IF lo = hi THEN f[lo]
  ELSE LET mid == (lo + hi) \div 2
       IN RAdd(SumOver(f, lo, mid), SumOver(f, mid + 1, hi))

RECURSIVE ProdOver(_, _, _)
\* f[lo] * ... * f[hi] over integers
ProdOver(f, lo, hi) == IF lo > hi THEN 1 ELSE f[lo] * ProdOver(f, lo + 1, hi)

\* A log-variance is stored in units of ln 2, so that logvar.exp() and
\* torch.exp(0.5 * logvar) are powers of two: logvar n stands for n * ln 2.
\* torch.exp
Exp(lv) == Pow2(lv)

\* ------------------------------------------------------ the network (VAE.py)
\* The images a mini-batch is drawn from: Side x Side matrices of 0 / 1.
\* Image id has the binary digits of id as its pixels, row by row.
Image(id) ==
  [r \in 1..Side |-> [c \in 1..Side |->
     (id \div Pow2((r - 1) * Side + c - 1)) % 2]]
Images == {Image(id) : id \in {1, 6}}

PixSum(x) ==
  SumOver([j \in 1..(Side * Side) |->
             RInt(x[((j - 1) \div Side) + 1][((j - 1) % Side) + 1])],
          1, Side * Side)[1]

\* model.fc_mu(model.encoder(x).squeeze()): one row of L means per image; in
\* evaluation mode it is a function of the parameters and of the image.
EncMu(th, x) ==
  [i \in 1..Len(x) |-> [l \in 1..L |-> ((th + PixSum(x[i]) + l) % 3) - 1]]

\* model.fc_logvar(model.encoder(x).squeeze()), in units of ln 2
EncLogvar(th, x) ==
  [i \in 1..Len(x) |-> [l \in 1..L |-> 2 * ((th + PixSum(x[i]) + l) % 2)]]

\* model(x) in evaluation mode, VAE.forward: the mean and the log-variance
\* it returns are those of the encoder, as importance_sampling recomputes
\* them (lines 125-127)
Forward(th, x) == [mu |-> EncMu(th, x), logvar |-> EncLogvar(th, x)]

\* model.decoder(model.fc_decode(z).reshape(...)): the logit of every pixel
Decoder(th, z) ==
  LET sz == SumOver([l \in 1..Len(z) |-> RInt(z[l])], 1, Len(z))[1]
  IN [r \in 1..Side |-> [c \in 1..Side |-> ((th + sz + r + 2 * c) % 3) - 1]]

\* log(sigmoid(l)) of a logit l in {-1, 0, 1}, in units of its own
LogSigmoid(l) == l - 2

\* F.binary_cross_entropy_with_logits(l, x, reduction='none') of one pixel:
\* -(x * log(sigmoid(l)) + (1 - x) * log(1 - sigmoid(l))), and
\* 1 - sigmoid(l) = sigmoid(-l)
BCEWithLogits(l, x) == 0 - (x * LogSigmoid(l) + (1 - x) * LogSigmoid(0 - l))

\* ------------------------------------------------------- generate_K_samples
\* torch.exp(logvar): the variance taken for the standard deviation
StdIsVar(lv) == [i \in 1..Len(lv) |-> [l \in 1..Len(lv[i]) |-> Exp(lv[i][l])]]

\* std = torch.exp(0.5 * logvar)
Std(lv) ==
  [i \in 1..Len(lv) |-> [l \in 1..Len(lv[i]) |-> Exp(lv[i][l] \div 2)]]

\* t.unsqueeze(1): (M, L) -> (M, 1, L)
Unsqueeze1(t) == [i \in 1..Len(t) |-> <<t[i]>>]

\* Index k of a dimension of size n that broadcasting may have stretched
Bc(n, k) == IF n = 1 THEN 1 ELSE k

\* generate_K_samples(mu, logvar, K), with e the tensor torch.randn drew,
\* of size (M, K, L): Z = mu.unsqueeze(1) + e * std.unsqueeze(1)
generate_K_samples(m, lv, e) ==
  LET std == Unsqueeze1(Std(lv))
      mu1 == Unsqueeze1(m)
  IN [i \in 1..Len(e) |-> [k \in 1..Len(e[i]) |-> [l \in 1..Len(e[i][k]) |->
        mu1[i][Bc(Len(mu1[i]), k)][l]
          + e[i][k][l] * std[i][Bc(Len(std[i]), k)][l]]]]

\* ------------------------------------------------------ importance_sampling
\* log_prob.squeeze().sum(2).sum(1) of one image: the sum over its pixels of
\* -binary_cross_entropy_with_logits
LogProbSum(logits, x) ==
  SumOver([r \in 1..Side |->
             SumOver([c \in 1..Side |-> RInt(0 - BCEWithLogits(logits[r][c], x[r][c]))],
                     1, Side)],
          1, Side)[1]

\* (Z.pow(2) - (Z - mu.unsqueeze(1)).pow(2) / var.unsqueeze(1)).sum(2), one
\* entry (i, k): z, m and v are the rows Z[i, k, :], mu[i, :] and var[i, :]
QuadSum(z, m, v) ==
  SumOver([l \in 1..Len(z) |->
             RSub(RInt(z[l] * z[l]), Rat((z[l] - m[l]) * (z[l] - m[l]), v[l]))],
          1, Len(z))

\* the determinant without its square root
DetFactorNoSqrt(v, K) == Rat(ProdOver(v, 1, Len(v)), K)

\* det_factor = np.sqrt(var.prod(dim=1, keepdim=True)) / K, one row
DetFactor(v, K) == Rat(Sqrt(ProdOver(v, 1, Len(v))), K)

\* scipy's logsumexp(a, axis=1, b=b), one row: log(sum_k b * exp(a[k])). The
\* value is kept as the sum under the logarithm: the function that takes
\* every exponent q to the total weight of exp(q).
logsumexp(a, b) ==
  [q \in {a[k] : k \in 1..Len(a)} |->
     RMul(b, RInt(Cardinality({k \in 1..Len(a) : a[k] = q})))]

\* importance_sampling(model, mini_batch_x, Z): [err, val], val the log_px of
\* size (M,) when no exception is raised
importance_sampling(th, x, Zt) ==
  LET M == Len(x)
      err == ShapeError(<<M, 1, Side, Side>>, <<Len(Zt), Len(Zt[1]), Len(Zt[1][1])>>)
  IN IF err # "ok" THEN [err |-> err, val |-> <<>>]
     ELSE
       LET mu2 == EncMu(th, x)
           var == [i \in 1..M |-> [l \in 1..L |-> Exp(EncLogvar(th, x)[i][l])]]
           log_p_x_z == [i \in 1..M |-> [k \in 1..K_is |->
                           LogProbSum(Decoder(th, Zt[i][k]), x[i])]]
           p_z_q_z == [i \in 1..M |-> [k \in 1..K_is |->
                         RSub(RInt(log_p_x_z[i][k]),
                              RMul(Rat(1, 2), QuadSum(Zt[i][k], mu2[i], var[i])))]]
       IN [err |-> "ok",
           val |-> [i \in 1..M |-> logsumexp(p_z_q_z[i], DetFactor(var[i], K_is))]]

\* ------------------------------------------------ one mini-batch, on values
\* torch.randn((M, K, L)): the draws are taken from {-1, 0, 1}, laid out by
\* the state ns of the random number generator
NoiseStates == {0, 1, 2}
Randn(ns, M, K, Ll) ==
  [i \in 1..M |-> [k \in 1..K |-> [l \in 1..Ll |->
     ((ns + i + k * l + (k \div 3)) % 3) - 1]]]

\* The K that callers pass to generate_K_samples: estimate_log_likelihood
\* passes K_est; the others stand for any caller of importance_sampling.
Ks == {1, K_est - 1, K_est, K_est + 1}
Thetas == {0, 1}

ScriptOff ==
  /\ pc = "off"
  /\ files = [sp \in {"train", "valid", "test"} |-> batch_size]
  /\ seed = 0
  /\ fwd1ok = TRUE
  /\ n_epochs = 1
  /\ splitdata = <<>>
  /\ model = "none"
  /\ optSteps = 0
  /\ grads = {}
  /\ epoch = 0
  /\ batch_idx = 0
  /\ split = "none"
  /\ train_loss = 0
  /\ test_loss = 0
  /\ train_losses = <<>>
  /\ valid_losses = <<>>
  /\ elbo_loss = 0
  /\ main_train_loss = "none"
  /\ last_test = "none"
  /\ ckpt = <<>>
  /\ lmodel = "none"
  /\ estimate = 0
  /\ reports = <<>>
  /\ writes = 0
  /\ epochParams = <<>>
  /\ seenBatches = <<>>
  /\ batchLosses = <<>>
  /\ stepsInCall = 0
  /\ stepGrads = {}
  /\ trainDone = 0
  /\ validDone = 0
  /\ generated = FALSE

\* estimate_log_likelihood has loaded the model (theta) and holds one
\* mini-batch of M images.
InitIS ==
  /\ ScriptOff
  /\ ipc = "fwd"
  /\ theta \in Thetas
  /\ \E M \in 1..MaxM : xs \in [1..M -> Images]
  /\ Kz \in Ks
  /\ mu = <<>>
  /\ logvar = <<>>
  /\ eps = <<>>
  /\ Z = <<>>
  /\ log_px = [err |-> "none", val |-> <<>>]

\* estimate_log_likelihood, line 166: recon_output, mu, logvar = model(x)
ISForward ==
  /\ ipc = "fwd"
  /\ mu' = Forward(theta, xs).mu
  /\ logvar' = Forward(theta, xs).logvar
  /\ ipc' = "sample"
  /\ UNCHANGED <<scriptVars, theta, xs, Kz, eps, Z, log_px>>

\* estimate_log_likelihood, line 170: Z = generate_K_samples(mu, logvar, K)
ISSample ==
  /\ ipc = "sample"
  /\ \E ns \in NoiseStates :
       LET e == Randn(ns, Len(mu), Kz, Len(mu[1]))
       IN eps' = e /\ Z' = generate_K_samples(mu, logvar, e)
  /\ ipc' = "is"
  /\ UNCHANGED <<scriptVars, theta, xs, Kz, mu, logvar, log_px>>

\* estimate_log_likelihood, line 172: log_px = importance_sampling(model, x, Z)
ISCall ==
  /\ ipc = "is"
  /\ log_px' = importance_sampling(theta, xs, Z)
  /\ ipc' = "done"
  /\ UNCHANGED <<scriptVars, theta, xs, Kz, mu, logvar, eps, Z>>

NextIS == ISForward \/ ISSample \/ ISCall

SpecIS == InitIS /\ [][NextIS]_vars

\* ---------------------------------------------- properties of the estimator
\* A density value coef * (2 pi)^(-pi / 2) * exp(ex), coef and ex rationals.
DMul(a, b) == [coef |-> RMul(a.coef, b.coef), ex |-> RAdd(a.ex, b.ex),
               pi |-> a.pi + b.pi]
DDiv(a, b) == [coef |-> RDiv(a.coef, b.coef), ex |-> RSub(a.ex, b.ex),
               pi |-> a.pi - b.pi]

\* The density at z of the diagonal Gaussian with mean m and variance v:
\* prod_l (2 pi v_l)^(-1/2) * exp(-(z_l - m_l)^2 / (2 v_l))
NormalPdf(z, m, v) ==
  [coef |-> Rat(1, Sqrt(ProdOver(v, 1, Len(v)))),
   ex |-> RMul(Rat(0 - 1, 2),
               SumOver([l \in 1..Len(z) |->
                          Rat((z[l] - m[l]) * (z[l] - m[l]), v[l])], 1, Len(z))),
   pi |-> Len(z)]

\* p(x | z): the product over all pixels of the Bernoulli probability of the
\* pixel, sigmoid(logit) for a 1 and 1 - sigmoid(logit) = sigmoid(-logit) for a 0
BernoulliPdf(logits, x) ==
  [coef |-> RInt(1),
   ex |-> SumOver([j \in 1..(Side * Side) |->
                     LET r == ((j - 1) \div Side) + 1
                         c == ((j - 1) % Side) + 1
                     IN RInt(IF x[r][c] = 1 THEN LogSigmoid(logits[r][c])
                             ELSE LogSigmoid(0 - logits[r][c]))],
                  1, Side * Side),
   pi |-> 0]

\* p(x_i | z_ik) * p(z_ik) / q(z_ik | x_i), q the Gaussian that Z[i] was
\* drawn from (mean mu[i], variance exp(logvar[i]))
Weight(i, k) ==
  LET z == Z[i][k]
      zero == [l \in 1..Len(z) |-> 0]
      one == [l \in 1..Len(z) |-> 1]
      v == [l \in 1..Len(z) |-> Exp(logvar[i][l])]
  IN DDiv(DMul(BernoulliPdf(Decoder(theta, z), xs[i]), NormalPdf(z, zero, one)),
          NormalPdf(z, mu[i], v))

\* (1 / K) * sum_k Weight(i, k) over all K samples of Z[i], as the function
\* that takes every exponent to the total weight of its exponential
RefLikelihood(i) ==
  LET K == Len(Z[i])
      W == [k \in 1..K |-> Weight(i, k)]
  IN [q \in {W[k].ex : k \in 1..K} |->
        RMul(Rat(1, K),
             SumOver([k \in 1..K |-> IF W[k].ex = q THEN W[k].coef ELSE RInt(0)],
                     1, K))]

\* C2: for the samples estimate_log_likelihood draws (K_est of them per image,
\* from the Gaussian with mean mu[i] and variance exp(logvar[i])), every
\* log_px[i] that importance_sampling returns is the logarithm of
\* (1 / K) * sum_k p(x_i | z_ik) * p(z_ik) / q(z_ik | x_i), with p(x | z) the
\* product of the Bernoulli probabilities of all pixels, p the standard normal
\* density and q that Gaussian; the factors (2 pi)^(-L/2) cancel.
C2_ImportanceWeights ==
  (ipc = "done" /\ Kz = K_est /\ log_px.err = "ok") =>
    /\ Len(log_px.val) = Len(xs)
    /\ \A i \in 1..Len(xs) :
         /\ \A k \in 1..Len(Z[i]) : Weight(i, k).pi = 0
         /\ log_px.val[i] = RefLikelihood(i)

\* C2's case: estimates were returned for two images with different means,
\* one with a variance other than 1, and the samples carry several weights.
C2_Witness ==
  /\ ipc = "done"
  /\ Kz = K_est
  /\ log_px.err = "ok"
  /\ Len(xs) = 2
  /\ mu[1] # mu[2]
  /\ \E l \in 1..L : logvar[1][l] # 0
  /\ Cardinality(DOMAIN log_px.val[1]) > 1

\* C3: for every M >= 1 and every K >= 1, importance_sampling on M images and
\* Z of size (M, K, L) returns M estimates, computed from all K samples of Z.
C3_AnyBatchAnyK ==
  ipc = "done" =>
    /\ log_px.err = "ok"
    /\ Len(log_px.val) = Len(xs)
    /\ K_is = Len(Z[1])

\* C5: Z is of size (M, K, L) and Z[i, k, l] = mu[i, l] + e[i, k, l] * s with
\* s the standard deviation of example i, the square root of exp(logvar[i, l]),
\* whatever the other examples of the mini-batch are.
C5_Reparameterized ==
  ipc \in {"is", "done"} =>
    /\ Len(Z) = Len(mu)
    /\ \A i \in 1..Len(Z) :
         /\ Len(Z[i]) = Kz
         /\ \A k \in 1..Kz :
              /\ Len(Z[i][k]) = L
              /\ \A l \in 1..L :
                   \E s \in 0..Exp(logvar[i][l]) :
                     /\ s * s = Exp(logvar[i][l])
                     /\ Z[i][k][l] = mu[i][l] + eps[i][k][l] * s

\* C5's case: K_est samples were drawn for two images whose means and
\* variances differ, with noise that is not zero.
C5_Witness ==
  /\ ipc = "is"
  /\ Kz = K_est
  /\ Len(mu) = 2
  /\ mu[1] # mu[2]
  /\ logvar[1] # logvar[2]
  /\ Z[1][1] # mu[1]

====
